---- MODULE Spec2Model ----
(***************************************************************************)
(* Model of the battleship server: the accept loop and the per-connection *)
(* threads of run() (src/src/lib.rs) and the Game roster, admission and   *)
(* turn loop (src/src/game.rs).                                           *)
(*                                                                         *)
(* Player, Grid, Ship and Coordinate live in player.rs, grid.rs and       *)
(* ship.rs, which are not part of the sources at hand; the few operators  *)
(* that stand for them are marked "external" below.                       *)
(***************************************************************************)
EXTENDS Integers, Sequences, FiniteSets, TLC

\* ------------------------------------------------------------------ bounds
\* Connections the listener hands out over a run.
MaxConns == 4
\* Valid shots fired in one match, when the whole server is explored.
MaxShots == 2
\* Valid shots fired in one match, when one match is explored alone.
MaxMatchShots == 4
\* Highest column index (0-based, row 0) a client types as a valid target.
MaxCol == 1

\* ------------------------------------------------------- program constants
MAX_PLAYERS == 3
grid_width == 10
grid_height == 10

Conns == 1..MaxConns
\* The name the client of each connection answers the greeting with.
Names == <<"ann", "bob", "cat", "dan", "eve", "fay", "gus", "hal">>
ClientName(c) == Names[((c - 1) % Len(Names)) + 1]
NoName == ""
NoCoord == <<>>
NoToken == <<>>

VARIABLES
    players,    \* Game.players: the roster, a sequence of Player records
    lock,       \* owner of the Mutex<Game>: 0 = free, c = thread of connection c
    pc,         \* position of each connection / its thread
    i,          \* the turn index of Game::start
    accepted,   \* connections handed out by listener.incoming() so far
    serverUp,   \* run() has not returned
    sent,       \* the messages written by the latest step, in order
    token,      \* the token read by the latest step (NoToken: none was read)
    fresh       \* shots of the match that hit a coordinate not hit before

vars == <<players, lock, pc, i, accepted, serverUp, sent, token, fresh>>

\* ------------------------------------------------------------ data (external)
\* Coordinate { x, y, is_hit }.
Coordinate(x, y) == [x |-> x, y |-> y, is_hit |-> FALSE]

\* PartialEq for Coordinate: by (x, y) alone.
CoordEq(a, b) == a.x = b.x /\ a.y = b.y

\* Vec::contains for a ship's coordinates.
Contains(coords, c) == \E k \in 1..Len(coords) : CoordEq(coords[k], c)

\* Ship::is_sunk: every coordinate of the ship is hit.
is_sunk(ship) == \A k \in 1..Len(ship.coords) : ship.coords[k].is_hit

Ship(coords) == [coords |-> coords]

\* Grid::default(): what Player::new gives a player before the match.
EmptyGrid == [ships |-> <<>>, hits |-> <<>>]

\* Grid::new_random: some validly placed fleet (distinct, in-bounds,
\* non-overlapping coordinates), no flag set, no shot recorded.
Fleets ==
    { <<Ship(<<Coordinate(0, 0)>>)>>,
      <<Ship(<<Coordinate(0, 0), Coordinate(1, 0)>>)>>,
      <<Ship(<<Coordinate(0, 0)>>), Ship(<<Coordinate(1, 0)>>)>> }

NewRandomGrids == { [ships |-> f, hits |-> <<>>] : f \in Fleets }

\* The one-ship fleet alone: the generator as the whole-server exploration
\* draws from it.
LobbyGrids == { [ships |-> <<Ship(<<Coordinate(0, 0)>>)>>, hits |-> <<>>] }

\* A token a client types: <<column, row>>, 1-based; <<0, 0>> stands for a
\* token of the wrong shape.
Tokens ==
    { <<c, 1>> : c \in 1..(MaxCol + 1) } \cup { <<grid_width + 1, 1>>, <<0, 0>> }

\* Coordinate::try_from.
TryFromOk(tok) ==
    /\ tok[1] >= 1 /\ tok[1] <= grid_width
    /\ tok[2] >= 1 /\ tok[2] <= grid_height

TryFrom(tok) == Coordinate(tok[1] - 1, tok[2] - 1)

\* Player::new(stream) after greet(): channel, name, empty grid.
Player(c) == [conn |-> c, name |-> ClientName(c), grid |-> EmptyGrid]

\* ---------------------------------------------------------------- messages
Msg(to, text, nm, coord, n, grid) ==
    [to |-> to, text |-> text, name |-> nm, coord |-> coord, n |-> n, grid |-> grid]

Text(to, text) == Msg(to, text, NoName, NoCoord, 0, <<>>)
TextName(to, text, nm) == Msg(to, text, nm, NoCoord, 0, <<>>)

\* A run of sends msgs[1], msgs[2], ...: either all succeed, or the send
\* number k+1 fails after k have been written.
Prefixes(msgs) == { SubSeq(msgs, 1, k) : k \in 0..(Len(msgs) - 1) }

\* ------------------------------------------------------------------- Game
\* Mutant: ready only beyond capacity.
is_ready_off_by_one(ps) == Len(ps) > MAX_PLAYERS

is_ready(ps) == Len(ps) = MAX_PLAYERS

\* Mutant: the ring read backwards.
opponent_index_pred(k) == (k + 2) % MAX_PLAYERS

opponent_index(k) == (k + 1) % MAX_PLAYERS

\* self.players[k], with the code's 0-based index.
At(ps, k) == ps[k + 1]

opponent(ps, k) == At(ps, opponent_index(k))

\* Game::add_player: the roster after the push.
add_player_roster(ps, p) == Append(ps, p)

\* Game::add_player: the sends that follow the push, in order.
add_player_msgs(ps, p) ==
    LET after == add_player_roster(ps, p) IN
    IF Len(ps) < MAX_PLAYERS
    THEN <<Text(At(after, 0).conn, "Waiting for opponent...")>>
    ELSE [m \in 1..MAX_PLAYERS |->
            TextName(At(after, m - 1).conn, "Your opponent is {}",
                     opponent(after, m - 1).name)]

\* Game::show_countdown: three rounds, each to every player of the roster.
show_countdown_msgs(ps) ==
    [m \in 1..(3 * Len(ps)) |->
        Msg(ps[((m - 1) % Len(ps)) + 1].conn, "Game starts in {}...", NoName,
            NoCoord, 4 - (((m - 1) \div Len(ps)) + 1), <<>>)]

\* Mutant: the loss check reads the board of the previous participant.
all_sunk_of_previous(ps, k) ==
    \A s \in 1..Len(ps[((k + 2) % MAX_PLAYERS) + 1].grid.ships) :
        is_sunk(ps[((k + 2) % MAX_PLAYERS) + 1].grid.ships[s])

\* The loss check at the head of an iteration of Game::start.
all_sunk(ps, k) ==
    \A s \in 1..Len(At(ps, k).grid.ships) : is_sunk(At(ps, k).grid.ships[s])

\* Mutant: the roster is kept after a declared win.
clear_nothing(ps) == ps

\* self.players.clear() after the two notices.
clear(ps) == <<>>

\* The two notices of a declared win, in the order they are sent.
\* Mutant: the win goes to the participant who fired at the loser.
win_msgs_to_shooter(ps, k) ==
    << TextName(At(ps, k).conn, "{} won.", At(ps, (k + 2) % MAX_PLAYERS).name),
       Text(At(ps, (k + 2) % MAX_PLAYERS).conn, "You won!") >>

\* Mutant: the winner is told first.
win_msgs_winner_first(ps, k) ==
    << Text(opponent(ps, k).conn, "You won!"),
       TextName(At(ps, k).conn, "{} won.", opponent(ps, k).name) >>

win_msgs(ps, k) ==
    << TextName(At(ps, k).conn, "{} won.", opponent(ps, k).name),
       Text(opponent(ps, k).conn, "You won!") >>

\* Game::show_grid: the upper grid built from the opponent's hits list.
upper_grid(ps, k) ==
    LET g == opponent(ps, k).grid IN
    [h \in 1..Len(g.hits) |->
        [x |-> g.hits[h].x, y |-> g.hits[h].y,
         is_hit |-> \E s \in 1..Len(g.ships) : Contains(g.ships[s].coords, g.hits[h])]]

show_grid_msgs(ps) ==
    [m \in 1..(3 * MAX_PLAYERS) |->
        LET k == (m - 1) \div 3
            part == (m - 1) % 3
        IN  CASE part = 0 -> Msg(At(ps, k).conn, "upper grid", NoName, NoCoord, 0,
                                 upper_grid(ps, k))
              [] part = 1 -> Text(At(ps, k).conn, "Your grid:")
              [] OTHER    -> Text(At(ps, k).conn, "lower grid")]

\* The prompt to the shooter and the broadcast to the others.
RECURSIVE turn_broadcast(_, _, _)
turn_broadcast(ps, k, j) ==
    IF j >= Len(ps) THEN <<>>
    ELSE (IF j # k
          THEN <<TextName(At(ps, j).conn, "{}'s turn.", At(ps, k).name)>>
          ELSE <<>>) \o turn_broadcast(ps, k, j + 1)

prompt_msgs(ps, k) ==
    <<TextName(At(ps, k).conn, "Your turn to shoot {}: ", opponent(ps, k).name)>>
    \o turn_broadcast(ps, k, 0)

\* The ship the shot finds: the first ship holding the coordinate (0 = none).
find_ship(grid, c) ==
    IF \E s \in 1..Len(grid.ships) : Contains(grid.ships[s].coords, c)
    THEN CHOOSE s \in 1..Len(grid.ships) :
            /\ Contains(grid.ships[s].coords, c)
            /\ \A t \in 1..(s - 1) : ~Contains(grid.ships[t].coords, c)
    ELSE 0

\* The coordinate of that ship the shot finds: the first one equal to c.
find_coord(ship, c) ==
    CHOOSE k \in 1..Len(ship.coords) :
        /\ CoordEq(ship.coords[k], c)
        /\ \A t \in 1..(k - 1) : ~CoordEq(ship.coords[t], c)

\* Mutant: a coordinate hit before counts as a miss.
shot_is_hit_once(grid, c) ==
    /\ find_ship(grid, c) # 0
    /\ ~grid.ships[find_ship(grid, c)].coords[
            find_coord(grid.ships[find_ship(grid, c)], c)].is_hit

shot_is_hit(grid, c) == find_ship(grid, c) # 0

\* Mutant: the shot is recorded but no flag is set.
shoot_no_flag(grid, c) == [grid EXCEPT !.hits = Append(@, c)]

\* Mutant: the flag is set on the first coordinate of the ship that was found.
shoot_first_coord(grid, c) ==
    LET pushed == [grid EXCEPT !.hits = Append(@, c)]
        s == find_ship(grid, c)
    IN  IF s = 0 THEN pushed
        ELSE [pushed EXCEPT !.ships[s].coords[1].is_hit = TRUE]

\* The board after a shot: the push onto hits, and the flag of the found
\* coordinate set.
shoot(grid, c) ==
    LET pushed == [grid EXCEPT !.hits = Append(@, c)]
        s == find_ship(grid, c)
    IN  IF s = 0 THEN pushed
        ELSE [pushed EXCEPT
                !.ships[s].coords[find_coord(grid.ships[s], c)].is_hit = TRUE]

\* Mutant: the shot lands on the shooter's own board.
fire_at_self(ps, k, c) ==
    [ps EXCEPT ![k + 1].grid = [@ EXCEPT !.hits = Append(@, c)]]

\* The roster after player k has fired c.
fire(ps, k, c) ==
    [ps EXCEPT ![opponent_index(k) + 1].grid = shoot(@, c)]

remaining(grid) ==
    Cardinality({ s \in 1..Len(grid.ships) : ~is_sunk(grid.ships[s]) })

\* The sends that follow the shot of player k at c (ps: roster after it).
shot_msgs(ps, k, c, is_hit) ==
    << Text(At(ps, k).conn, IF is_hit THEN "Hit!" ELSE "Missed."),
       Msg(At(ps, k).conn, "{} has {} ships remaining.", opponent(ps, k).name,
           NoCoord, remaining(opponent(ps, k).grid), <<>>),
       Msg(opponent(ps, k).conn, "{} is firing at {}", At(ps, k).name,
           <<c.x, c.y>>, 0, <<>>) >>

\* The found coordinate carries its flag already.
already_hit(grid, c) ==
    LET s == find_ship(grid, c) IN
    s # 0 /\ grid.ships[s].coords[find_coord(grid.ships[s], c)].is_hit

\* The notice for a token that does not parse.
invalid_msgs(ps, k) == <<Text(At(ps, k).conn, "Your missile went to space!")>>

\* Mutant: an unparseable token consumes the turn.
after_invalid_advance(k) == IF k + 1 < MAX_PLAYERS THEN k + 1 ELSE 0

\* `continue` after that notice: the iteration restarts with the same index.
after_invalid(k) == k

\* Mutant: a hit passes the turn on as a miss does.
next_index_always(k, is_hit) ==
    IF k + 1 < MAX_PLAYERS THEN k + 1 ELSE 0

\* The turn index at the next iteration.
next_index(k, is_hit) ==
    IF is_hit THEN k
    ELSE IF k + 1 < MAX_PLAYERS THEN k + 1 ELSE 0

RECURSIVE SumHits(_, _)
SumHits(ps, k) ==
    IF k > Len(ps) THEN 0 ELSE Len(ps[k].grid.hits) + SumHits(ps, k + 1)

\* Valid shots fired so far at the boards of the roster.
ShotsFired(ps) == SumHits(ps, 1)

\* ------------------------------------------------------------------- Init
Init ==
    /\ players = <<>>
    /\ lock = 0
    /\ pc = [c \in Conns |-> "new"]
    /\ i = 0
    /\ accepted = 0
    /\ serverUp = TRUE
    /\ sent = <<>>
    /\ token = NoToken
    /\ fresh = 0

\* Mutant: lock() never waits.
LockNeverWaits == TRUE

\* The Mutex<Game> can be taken.
LockFree == lock = 0

\* The closure of a thread returns an error while holding the guard: the
\* guard is dropped, then expect() panics the thread.
Abort(c) ==
    /\ pc' = [pc EXCEPT ![c] = "panicked"]
    /\ lock' = 0
    /\ i' = 0

\* ------------------------------------------------------------ accept loop
\* One iteration of `for stream in listener.incoming()`: the readiness check
\* under the lock, then either the decline or the spawn of the thread.
AcceptUpTo(maxConns) ==
    /\ serverUp
    /\ accepted < maxConns
    /\ LockFree
    /\ accepted' = accepted + 1
    /\ UNCHANGED <<players, lock, i, fresh>>
    /\ token' = NoToken
    /\ LET c == accepted + 1 IN
       IF is_ready(players)
       THEN /\ pc' = [pc EXCEPT ![c] = "declined"]
            /\ \/ sent' = <<Text(c, "Lobby is full.")>> /\ serverUp' = TRUE
               \/ sent' = <<>> /\ serverUp' = FALSE
       ELSE /\ pc' = [pc EXCEPT ![c] = "spawned"]
            /\ sent' = <<>>
            /\ serverUp' = TRUE

Accept == AcceptUpTo(MaxConns)

\* ---------------------------------------------------- connection threads
\* player.greet()?: the client is asked for its name; the thread panics
\* when the channel fails.
Greet(c) ==
    /\ pc[c] = "spawned"
    /\ sent' = <<>>
    /\ token' = NoToken
    /\ UNCHANGED <<players, lock, i, accepted, serverUp, fresh>>
    /\ \/ pc' = [pc EXCEPT ![c] = "greeted"]
       \/ pc' = [pc EXCEPT ![c] = "panicked"]

\* game.lock(): blocks until the mutex is free.
Lock(c) ==
    /\ pc[c] = "greeted"
    /\ LockFree
    /\ lock' = c
    /\ pc' = [pc EXCEPT ![c] = "locked"]
    /\ sent' = <<>>
    /\ token' = NoToken
    /\ UNCHANGED <<players, i, accepted, serverUp, fresh>>

\* game.add_player(player)? and the readiness check that follows it.
AddPlayer(c) ==
    /\ pc[c] = "locked"
    /\ LET p == Player(c)
           msgs == add_player_msgs(players, p)
       IN  /\ players' = add_player_roster(players, p)
           /\ \/ /\ sent' = msgs
                 /\ IF is_ready(players')
                    THEN /\ pc' = [pc EXCEPT ![c] = "setup"]
                         /\ UNCHANGED <<lock, i>>
                    ELSE /\ pc' = [pc EXCEPT ![c] = "done"]
                         /\ lock' = 0
                         /\ UNCHANGED i
              \/ /\ sent' \in Prefixes(msgs)
                 /\ Abort(c)
    /\ token' = NoToken
    /\ UNCHANGED <<accepted, serverUp, fresh>>

\* player.grid = Grid::new_random(..) for every player of the roster.
SetupFrom(c, grids) ==
    /\ pc[c] = "setup"
    /\ \E g \in [1..Len(players) -> grids] :
          players' = [k \in 1..Len(players) |-> [players[k] EXCEPT !.grid = g[k]]]
    /\ pc' = [pc EXCEPT ![c] = "countdown"]
    /\ sent' = <<>>
    /\ token' = NoToken
    /\ fresh' = 0
    /\ UNCHANGED <<lock, i, accepted, serverUp>>

Setup(c) == SetupFrom(c, LobbyGrids)

\* game.play(..) in run() is taken to be Game::start, the only method of
\* Game with that signature.
\* Game::show_countdown, then the entry into the turn loop with i = 0.
Countdown(c) ==
    /\ pc[c] = "countdown"
    /\ token' = NoToken
    /\ UNCHANGED <<players, accepted, serverUp, fresh>>
    /\ \/ /\ sent' = show_countdown_msgs(players)
          /\ pc' = [pc EXCEPT ![c] = "turn"]
          /\ i' = 0
          /\ UNCHANGED lock
       \/ /\ sent' \in Prefixes(show_countdown_msgs(players))
          /\ Abort(c)

\* The head of an iteration: the loss check, and when it does not end the
\* match, the grids, the prompt and the broadcast; the thread then reads.
TurnBegin(c) ==
    /\ pc[c] = "turn"
    /\ token' = NoToken
    /\ UNCHANGED <<accepted, serverUp, fresh>>
    /\ IF all_sunk(players, i)
       THEN \/ /\ sent' = win_msgs(players, i)
               /\ players' = clear(players)
               /\ pc' = [pc EXCEPT ![c] = "done"]
               /\ lock' = 0
               /\ i' = 0
            \/ /\ sent' \in Prefixes(win_msgs(players, i))
               /\ Abort(c)
               /\ UNCHANGED players
       ELSE LET msgs == show_grid_msgs(players) \o prompt_msgs(players, i) IN
            \/ /\ sent' = msgs
               /\ pc' = [pc EXCEPT ![c] = "read"]
               /\ UNCHANGED <<players, lock, i>>
            \/ /\ sent' \in Prefixes(msgs)
               /\ Abort(c)
               /\ UNCHANGED players

\* The rest of the iteration: the read, the parse, the shot and its notices,
\* and the advance of the turn index.
TurnInputUpTo(c, maxShots) ==
    /\ pc[c] = "read"
    /\ UNCHANGED <<accepted, serverUp>>
    /\ \/ \* self.players[i].read()? fails
          /\ sent' = <<>>
          /\ token' = NoToken
          /\ Abort(c)
          /\ UNCHANGED <<players, fresh>>
       \/ \* the token does not parse
          \E tok \in Tokens :
            /\ ~TryFromOk(tok)
            /\ token' = tok
            /\ UNCHANGED <<players, fresh>>
            /\ \/ /\ sent' = invalid_msgs(players, i)
                  /\ pc' = [pc EXCEPT ![c] = "turn"]
                  /\ i' = after_invalid(i)
                  /\ UNCHANGED lock
               \/ /\ sent' \in Prefixes(invalid_msgs(players, i))
                  /\ Abort(c)
       \/ \* the token parses: the shot
          \E tok \in Tokens :
            LET coordinate == TryFrom(tok)
                is_hit == shot_is_hit(opponent(players, i).grid, coordinate)
                after == fire(players, i, coordinate)
                msgs == shot_msgs(after, i, coordinate, is_hit)
            IN  /\ TryFromOk(tok)
                /\ ShotsFired(players) < maxShots
                /\ token' = tok
                /\ players' = after
                /\ fresh' = IF is_hit /\ ~already_hit(opponent(players, i).grid, coordinate)
                            THEN fresh + 1 ELSE fresh
                /\ \/ /\ sent' = msgs
                      /\ pc' = [pc EXCEPT ![c] = "turn"]
                      /\ i' = next_index(i, is_hit)
                      /\ UNCHANGED lock
                   \/ /\ sent' \in Prefixes(msgs)
                      /\ Abort(c)

TurnInput(c) == TurnInputUpTo(c, MaxShots)

Next ==
    \/ Accept
    \/ \E c \in Conns :
        \/ Greet(c)
        \/ Lock(c)
        \/ AddPlayer(c)
        \/ Setup(c)
        \/ Countdown(c)
        \/ TurnBegin(c)
        \/ TurnInput(c)

Spec == Init /\ [][Next]_vars

\* --------------------------------------------------------- one match alone
\* The state right after the add_player that takes the roster to three, the
\* connections 1, 2, 3 having joined in this order: the thread of connection
\* 3 holds the lock and is about to generate the fleets.
MatchInit ==
    /\ players = <<Player(1), Player(2), Player(3)>>
    /\ lock = 3
    /\ pc = [c \in Conns |-> IF c < 3 THEN "done" ELSE IF c = 3 THEN "setup" ELSE "new"]
    /\ i = 0
    /\ accepted = 3
    /\ serverUp = TRUE
    /\ sent = add_player_msgs(<<Player(1), Player(2)>>, Player(3))
    /\ token = NoToken
    /\ fresh = 0

MatchSetup(c) == SetupFrom(c, NewRandomGrids)

MatchTurnInput(c) == TurnInputUpTo(c, MaxMatchShots)

MatchNext ==
    \E c \in Conns :
        \/ MatchSetup(c)
        \/ Countdown(c)
        \/ TurnBegin(c)
        \/ MatchTurnInput(c)

MatchSpec == MatchInit /\ [][MatchNext]_vars

\* ------------------------------------------------- a match and what follows
\* The connections of a run that sees a second cohort.
RematchConns == 1..(MaxConns + 2)

\* The first match at the loss check that ends it: connections 1, 2, 3 play
\* with one-ship fleets, participant 0 has hit the ship of participant 1 and
\* then missed, and the loop has reached index 1. Connection 4 is either
\* not accepted yet or was accepted before the match and waits for the lock.
RematchRoster ==
    LET g == CHOOSE x \in LobbyGrids : TRUE
        start == [k \in 1..3 |-> [Player(k) EXCEPT !.grid = g]]
    IN  fire(fire(start, 0, Coordinate(0, 0)), 0, Coordinate(1, 0))

RematchInit ==
    /\ players = RematchRoster
    /\ lock = 3
    /\ \E waiting \in BOOLEAN :
          /\ pc = [c \in RematchConns |->
                    IF c < 3 THEN "done"
                    ELSE IF c = 3 THEN "turn"
                    ELSE IF c = 4 /\ waiting THEN "greeted" ELSE "new"]
          /\ accepted = IF waiting THEN 4 ELSE 3
    /\ i = 1
    /\ serverUp = TRUE
    /\ sent = shot_msgs(RematchRoster, 0, Coordinate(1, 0), FALSE)
    /\ token = <<2, 1>>
    /\ fresh = 1

RematchAccept == AcceptUpTo(MaxConns + 2)

RematchNext ==
    \/ RematchAccept
    \/ \E c \in RematchConns :
        \/ Greet(c)
        \/ Lock(c)
        \/ AddPlayer(c)
        \/ Setup(c)
        \/ Countdown(c)
        \/ TurnBegin(c)
        \/ TurnInput(c)

RematchSpec == RematchInit /\ [][RematchNext]_vars

\* ================================================================== claims
\* Helpers of the statements below, written out without the operators of
\* the model they are checked against.
Stages == {"locked", "setup", "countdown", "turn", "read"}
MatchStages == {"setup", "countdown", "turn", "read"}

\* The thread that runs the turn loop, if any.
Playing(c) == pc[c] \in {"turn", "read"}

Succ3(k) == IF k = 2 THEN 0 ELSE k + 1
Pred3(k) == IF k = 0 THEN 2 ELSE k - 1

Occupies(grid, x, y) ==
    \E s \in 1..Len(grid.ships) : \E k \in 1..Len(grid.ships[s].coords) :
        grid.ships[s].coords[k].x = x /\ grid.ships[s].coords[k].y = y

Destroyed(grid) ==
    \A s \in 1..Len(grid.ships) : \A k \in 1..Len(grid.ships[s].coords) :
        grid.ships[s].coords[k].is_hit

Got(msgs, to, text) == \E m \in 1..Len(msgs) : msgs[m].to = to /\ msgs[m].text = text

GotNamed(msgs, to, text, nm) ==
    \E m \in 1..Len(msgs) : msgs[m].to = to /\ msgs[m].text = text /\ msgs[m].name = nm

\* C1: the roster never holds more than three participants, under every
\* interleaving of the connection threads and also after a match was
\* aborted by a channel error.
C1_RosterWithinCapacity == Len(players) <= 3

\* C2: when add_player has taken the roster from 2 to 3 and the thread goes on
\* to set the match up, every participant k has been sent "Your opponent is
\* <name>" naming participant (k+1) mod 3.
C2_FillBroadcastsOpponents ==
    \A c \in Conns :
        pc[c] = "setup" =>
            \A k \in 0..2 :
                GotNamed(sent, players[k + 1].conn, "Your opponent is {}",
                         players[Succ3(k) + 1].name)

\* A token that parses: column and row within the 10 x 10 board.
ValidTok(tok) ==
    tok # NoToken /\ tok[1] \in 1..10 /\ tok[2] \in 1..10

InvalidTok(tok) == tok # NoToken /\ ~ValidTok(tok)

\* C3: when the loss check for index i finds every unit of participant i
\* destroyed, no token is read and no board changes, the iteration ends the
\* loop, and unless one of the two sends fails participant (i+1) mod 3 is sent
\* "You won!", participant i is sent "<name of (i+1) mod 3> won.", the roster is
\* emptied and the lock released.
C3_LossCheckDeclaresWin ==
    [][\A c \in Conns :
        (pc[c] = "turn" /\ Destroyed(players[i + 1].grid)) =>
            /\ token' = NoToken
            /\ pc'[c] \in {"done", "panicked"}
            /\ players' # <<>> => players' = players
            /\ pc'[c] = "done" =>
                /\ Got(sent', players[Succ3(i) + 1].conn, "You won!")
                /\ GotNamed(sent', players[i + 1].conn, "{} won.",
                            players[Succ3(i) + 1].name)
                /\ Len(sent') = 2
                /\ players' = <<>>
                /\ lock' = 0]_vars

C3_Witness ==
    \E c \in Conns :
        /\ pc[c] = "done"
        /\ players = <<>>
        /\ Len(sent) = 2
        /\ sent[1].text = "{} won."
        /\ sent[2].text = "You won!"

\* C4: a valid shot by participant i changes the board of participant
\* (i+1) mod 3 and nothing else of the roster; during the turn loop a board
\* changes only while reading from the participant that precedes its owner.
C4_ShotChangesOnlyOpponentBoard ==
    [][\A c \in Conns :
        /\ (pc[c] = "read" /\ ValidTok(token')) =>
              /\ Len(players') = 3
              /\ players'[i + 1] = players[i + 1]
              /\ players'[Pred3(i) + 1] = players[Pred3(i) + 1]
              /\ players'[Succ3(i) + 1].grid # players[Succ3(i) + 1].grid
              /\ players'[Succ3(i) + 1].conn = players[Succ3(i) + 1].conn
              /\ players'[Succ3(i) + 1].name = players[Succ3(i) + 1].name
        /\ \A k \in 0..2 :
              (Playing(c) /\ players' # <<>> /\ players'[k + 1] # players[k + 1])
                  => (pc[c] = "read" /\ i = Pred3(k))]_vars

\* Participant 2 has fired at the board of participant 0.
C4_Witness ==
    \E c \in Conns :
        /\ pc[c] = "turn"
        /\ ValidTok(token)
        /\ Len(players) = 3
        /\ players[1].grid.hits # <<>>

\* C5: after a valid shot by participant i the next iteration is for i when a
\* unit of the target board occupies the coordinate fired at, and for
\* (i+1) mod 3 (2 wraps to 0) when none does; the loop starts at index 0 and
\* the index changes in no other step of a match.
C5_TurnAdvance ==
    [][\A c \in Conns :
        /\ (pc[c] = "countdown" /\ pc'[c] = "turn") => i' = 0
        /\ (Playing(c) /\ pc'[c] \in {"turn", "read"}) =>
              IF pc[c] = "read" /\ ValidTok(token')
              THEN LET hits == players'[Succ3(i) + 1].grid.hits
                       shot == hits[Len(hits)]
                   IN  i' = IF Occupies(players[Succ3(i) + 1].grid, shot.x, shot.y)
                            THEN i ELSE Succ3(i)
              ELSE i' = i]_vars

\* Participant 2 has missed and the index has wrapped to 0.
C5_Witness ==
    \E c \in Conns :
        /\ pc[c] = "turn"
        /\ ValidTok(token)
        /\ i = 0
        /\ Len(sent) = 3
        /\ sent[1].text = "Missed."
        /\ sent[1].to = players[3].conn

\* C6: when the token read from participant i does not parse, no board and no
\* hits list changes; unless the send fails, participant i alone is sent the
\* invalid-target notice and the index stays i; the iteration that follows
\* prompts participant i again.
C6_InvalidTokenRetries ==
    [][\A c \in Conns :
        /\ (pc[c] = "read" /\ InvalidTok(token')) =>
              /\ players' = players
              /\ \/ /\ pc'[c] = "turn"
                    /\ i' = i
                    /\ Len(sent') = 1
                    /\ sent'[1].to = players[i + 1].conn
                    /\ sent'[1].text = "Your missile went to space!"
                 \/ /\ pc'[c] = "panicked"
                    /\ sent' = <<>>
        /\ (pc[c] = "turn" /\ InvalidTok(token)) =>
              /\ pc'[c] \in {"read", "panicked"}
              /\ pc'[c] = "read" =>
                    /\ i' = i
                    /\ Got(sent', players[i + 1].conn, "Your turn to shoot {}: ")]_vars

C6_Witness ==
    \E c \in Conns :
        /\ pc[c] = "turn"
        /\ InvalidTok(token)
        /\ Len(sent) = 1
        /\ sent[1].text = "Your missile went to space!"
        /\ \E k \in 1..3 : players[k].grid.hits # <<>>

\* C7: a valid coordinate fired at a board is appended to its hits list,
\* duplicates included; when no unit occupies it no flag changes and the
\* shooter is told "Missed."; when a unit occupies it the flag of exactly
\* that coordinate is (or stays) true, every other flag is unchanged and the
\* shooter is told "Hit!", also when the coordinate was hit before.
C7_ShotResolution ==
    [][\A c \in Conns :
        (pc[c] = "read" /\ ValidTok(token')) =>
            LET g == players[Succ3(i) + 1].grid
                h == players'[Succ3(i) + 1].grid
                x == token'[1] - 1
                y == token'[2] - 1
                occ == Occupies(g, x, y)
            IN  /\ Len(h.hits) = Len(g.hits) + 1
                /\ SubSeq(h.hits, 1, Len(g.hits)) = g.hits
                /\ h.hits[Len(h.hits)].x = x /\ h.hits[Len(h.hits)].y = y
                /\ Len(h.ships) = Len(g.ships)
                /\ \A s \in 1..Len(g.ships) :
                      /\ Len(h.ships[s].coords) = Len(g.ships[s].coords)
                      /\ \A k \in 1..Len(g.ships[s].coords) :
                            LET a == g.ships[s].coords[k]
                                b == h.ships[s].coords[k]
                            IN  /\ b.x = a.x /\ b.y = a.y
                                /\ b.is_hit = (a.is_hit \/ (a.x = x /\ a.y = y))
                /\ pc'[c] = "turn" => Len(sent') = 3
                /\ Len(sent') >= 1 =>
                      /\ sent'[1].to = players[i + 1].conn
                      /\ sent'[1].text = IF occ THEN "Hit!" ELSE "Missed."]_vars

\* A coordinate already in the hits list has been fired at again: "Hit!".
C7_Witness ==
    \E c \in Conns :
        /\ pc[c] = "turn"
        /\ ValidTok(token)
        /\ Len(sent) = 3
        /\ sent[1].text = "Hit!"
        /\ LET hits == players[Succ3(i) + 1].grid.hits IN
           /\ Len(hits) >= 2
           /\ \E k \in 1..(Len(hits) - 1) :
                 hits[k].x = hits[Len(hits)].x /\ hits[k].y = hits[Len(hits)].y

\* C8: while every unit of a participant is destroyed, that participant is
\* not prompted, no token is read from it and no iteration waits for its
\* input; the iteration that reaches its index ends the loop.
C8_DestroyedNeverActs ==
    [][\A c \in Conns : \A p \in 0..2 :
        (Playing(c) /\ Destroyed(players[p + 1].grid)) =>
            /\ ~Got(sent', players[p + 1].conn, "Your turn to shoot {}: ")
            /\ ~(pc[c] = "read" /\ i = p /\ token' # NoToken)
            /\ ~(pc'[c] = "read" /\ i' = p)
            /\ (pc[c] = "turn" /\ i = p) => pc'[c] \in {"done", "panicked"}]_vars

\* A fleet is destroyed and the participant that destroyed it is prompted
\* again.
C8_Witness ==
    \E c \in Conns : \E p \in 0..2 :
        /\ pc[c] = "read"
        /\ Destroyed(players[p + 1].grid)
        /\ i = Pred3(p)

RECURSIVE CountCoords(_, _)
CountCoords(ships, s) ==
    IF s > Len(ships) THEN 0 ELSE Len(ships[s].coords) + CountCoords(ships, s + 1)

\* Occupied coordinates on the three boards, and shots recorded on them.
TotalOccupied ==
    CountCoords(players[1].grid.ships, 1) + CountCoords(players[2].grid.ships, 1)
        + CountCoords(players[3].grid.ships, 1)

TotalShots ==
    Len(players[1].grid.hits) + Len(players[2].grid.hits) + Len(players[3].grid.hits)

\* C9 as claimed: the shots of a match never outnumber the occupied
\* coordinates of the three boards.
C9_ShotsBoundedByOccupied ==
    \A c \in Conns : Playing(c) => TotalShots <= TotalOccupied

\* C9 as amended: the shots are not bounded (a miss, or a hit on a coordinate
\* hit before, sets no flag and the loss check reads only the shooter's own
\* board); only the shots that hit a coordinate not hit before are bounded by
\* the occupied coordinates of the three boards.
C9_FreshHitsBounded ==
    \A c \in Conns : Playing(c) => fresh <= TotalOccupied

\* More shots than occupied coordinates, one of them a first hit.
C9_Witness ==
    \E c \in Conns :
        /\ Playing(c)
        /\ fresh >= 1
        /\ TotalShots > TotalOccupied

\* C10: a thread between its lock() and the end of its closure owns the lock
\* (so at most one thread is in a match); the roster changes only in steps of
\* the owner, the accept loop reads the roster only while no thread owns the
\* lock, and the owner keeps the lock from one stage to the next.
C10_LockHeldThroughMatch ==
    /\ [](\A c \in Conns : pc[c] \in Stages => lock = c)
    /\ [][/\ players' # players => (lock # 0 /\ pc[lock] \in Stages /\ pc'[lock] # pc[lock])
          /\ accepted' # accepted => (lock = 0 /\ \A c \in Conns : pc[c] \notin Stages)
          /\ \A c \in Conns : (pc[c] \in Stages /\ pc'[c] \in Stages) => lock' = c]_vars

\* A match is being played while another thread waits for the lock.
C10_Witness ==
    \E c \in Conns : \E d \in Conns :
        /\ pc[c] = "read"
        /\ lock = c
        /\ pc[d] = "greeted"

\* C11: a match that ends by a declared win leaves the roster empty and the
\* lock free; afterwards a join on a roster of fewer than two adds the
\* connection and releases the lock, the join that takes the roster from two
\* to three keeps the lock and sets a match up, and the countdown of that
\* match leads into the turn loop at index 0, on the same roster object.
C11_NewCohortAfterWin ==
    [][\A c \in DOMAIN pc :
        /\ (pc[c] = "turn" /\ pc'[c] = "done") =>
              players' = <<>> /\ lock' = 0
        /\ (pc[c] = "locked" /\ pc'[c] \notin {"locked", "panicked"}
              /\ Len(players) < 2) =>
              /\ players' = Append(players, Player(c))
              /\ pc'[c] = "done"
              /\ lock' = 0
        /\ (pc[c] = "locked" /\ pc'[c] \notin {"locked", "panicked"}
              /\ Len(players) = 2) =>
              /\ players' = Append(players, Player(c))
              /\ pc'[c] = "setup"
              /\ lock' = c
        /\ (pc[c] = "setup" /\ pc'[c] \notin {"setup", "panicked"}) =>
              pc'[c] = "countdown" /\ lock' = c /\ Len(players') = 3
        /\ (pc[c] = "countdown" /\ pc'[c] \notin {"countdown", "panicked"}) =>
              pc'[c] = "turn" /\ i' = 0 /\ lock' = c /\ players' = players]_vars

\* The second cohort plays: the first match was won, and connections that came
\* after it, one of which may have waited for the lock, are in the turn loop.
C11_Witness ==
    /\ pc[3] = "done"
    /\ Len(players) = 3
    /\ \A k \in 1..3 : players[k].conn > 3
    /\ \E c \in DOMAIN pc : c > 3 /\ pc[c] = "read" /\ lock = c

\* C12: whenever a thread that holds the lock aborts on a channel error, in
\* add_player, in the countdown or in the turn loop, the lock is released and
\* the roster is empty afterwards.
C12_AbortReleasesAndClears ==
    [][\A c \in Conns :
        (pc[c] \in Stages /\ pc'[c] = "panicked") =>
            lock' = 0 /\ players' = <<>>]_vars

NoticeTexts == {"You won!", "{} won."}

\* C13 as stated: in the step in which a match is terminated by a channel
\* error, nobody is sent "You won!" or "<name> won.".
C13_NoNoticeOnAbort ==
    [][\A c \in Conns :
        (pc[c] \in MatchStages /\ pc'[c] = "panicked") =>
            \A m \in 1..Len(sent') : sent'[m].text \notin NoticeTexts]_vars

\* C13: no step that leaves the match running sends a win or loss notice; a
\* step that terminates the match by a channel error never sends "You won!",
\* and it sends "<name> won." only when it is the loss check for a destroyed
\* participant i whose own notice was written and the send of "You won!" to
\* (i+1) mod 3 then failed.
C13_OnlyLoserNoticeOnAbort ==
    [][\A c \in Conns :
        /\ (pc[c] \in MatchStages /\ pc'[c] \in MatchStages) =>
              \A m \in 1..Len(sent') : sent'[m].text \notin NoticeTexts
        /\ (pc[c] \in MatchStages /\ pc'[c] = "panicked") =>
              /\ \A m \in 1..Len(sent') : sent'[m].text # "You won!"
              /\ (\E m \in 1..Len(sent') : sent'[m].text = "{} won.") =>
                    /\ pc[c] = "turn"
                    /\ Destroyed(players[i + 1].grid)
                    /\ sent' = <<TextName(players[i + 1].conn, "{} won.",
                                          players[Succ3(i) + 1].name)>>
                    /\ players' = players]_vars

\* The loss notice was written and the match then aborted.
C13_Witness ==
    \E c \in Conns :
        /\ pc[c] = "panicked"
        /\ Len(players) = 3
        /\ \E k \in 0..2 :
              /\ Destroyed(players[k + 1].grid)
              /\ sent = <<TextName(players[k + 1].conn, "{} won.",
                                   players[Succ3(k) + 1].name)>>

\* C14: a connection accepted while the roster holds three is declined: it
\* gets no thread, the roster, the boards and the lock are as before, and
\* unless that send fails it is sent "Lobby is full."; a declined connection
\* stays declined and is never in the roster.
C14_DeclineLeavesGameAlone ==
    /\ [][(accepted' # accepted /\ Len(players) = 3) =>
            /\ pc'[accepted'] = "declined"
            /\ players' = players
            /\ lock' = lock
            /\ serverUp' => sent' = <<Text(accepted', "Lobby is full.")>>]_vars
    /\ [][\A c \in Conns : pc[c] = "declined" => pc'[c] = "declined"]_vars
    /\ [](\A c \in Conns : pc[c] = "declined" =>
            \A k \in 1..Len(players) : players[k].conn # c)

C14_Witness ==
    \E c \in Conns :
        /\ pc[c] = "declined"
        /\ serverUp
        /\ sent = <<Text(c, "Lobby is full.")>>
        /\ Len(players) = 3

\* C15: a successful add_player sends "Waiting for opponent..." exactly when
\* the roster was empty before the call, and then to the connection that
\* joined; joins on a non-empty roster send no waiting notice.
C15_WaitingOnlyOnFirstJoin ==
    [][\A c \in Conns :
        (pc[c] = "locked" /\ pc'[c] \in {"done", "setup"}) =>
            /\ Len(players) = 0 => sent' = <<Text(c, "Waiting for opponent...")>>
            /\ Len(players) > 0 =>
                  \A m \in 1..Len(sent') :
                      sent'[m].text # "Waiting for opponent..."]_vars

\* The coordinate (x, y) of unit coordinate co is recorded in the hits list.
Recorded(grid, co) == \E h \in 1..Len(grid.hits) : CoordEq(grid.hits[h], co)

\* C16: on every board of the roster, from fresh fleets on, the flag of a
\* coordinate occupied by a unit is set iff that coordinate is in the hits list
\* of the board, and a unit is destroyed iff all its coordinates are in it.
C16_FlagIffRecorded ==
    \A p \in 1..Len(players) :
        LET grid == players[p].grid IN
        \A s \in 1..Len(grid.ships) :
            /\ \A k \in 1..Len(grid.ships[s].coords) :
                  grid.ships[s].coords[k].is_hit
                      <=> Recorded(grid, grid.ships[s].coords[k])
            /\ is_sunk(grid.ships[s])
                  <=> \A k \in 1..Len(grid.ships[s].coords) :
                          Recorded(grid, grid.ships[s].coords[k])

\* A unit of two coordinates with only the second one hit, and hit twice.
C16_Witness ==
    \E p \in 1..Len(players) :
        LET grid == players[p].grid IN
        /\ \E s \in 1..Len(grid.ships) :
              /\ Len(grid.ships[s].coords) = 2
              /\ ~grid.ships[s].coords[1].is_hit
              /\ grid.ships[s].coords[2].is_hit
        /\ Len(grid.hits) = 2

\* C17: an iteration entered for index i while the fleet of participant
\* (i+1) mod 3 is entirely destroyed ends the match without a prompt for i.
C17_OpponentGoneEndsMatch ==
    [][\A c \in Conns :
        (pc[c] = "turn" /\ Destroyed(players[Succ3(i) + 1].grid)) =>
            pc'[c] \in {"turn", "done", "panicked"}]_vars

\* C18: in a declared win with loser L = i, "You won!" goes to participant
\* (L+1) mod 3 and "<name> won." to L, and these are the only messages, so
\* participant (L+2) mod 3 gets neither; L's board holds shots, and every shot
\* that changes a board k is fired by (k+2) mod 3, never by (k+1) mod 3.
C18_WinnerNeverFiredAtLoser ==
    [][\A c \in Conns :
        /\ (pc[c] = "turn" /\ pc'[c] = "done") =>
              /\ Destroyed(players[i + 1].grid)
              /\ Len(players[i + 1].grid.hits) > 0
              /\ sent' = << TextName(players[i + 1].conn, "{} won.",
                                     players[Succ3(i) + 1].name),
                            Text(players[Succ3(i) + 1].conn, "You won!") >>
              /\ \A m \in 1..Len(sent') : sent'[m].to # players[Pred3(i) + 1].conn
        /\ \A k \in 0..2 :
              (Playing(c) /\ Len(players') = 3
                 /\ players'[k + 1].grid # players[k + 1].grid) =>
                    /\ pc[c] = "read"
                    /\ i = Pred3(k)
                    /\ i # Succ3(k)]_vars

\* Participant 1 destroyed the fleet of participant 2, and participant 0 (the
\* first connection) was told "You won!".
C18_Witness ==
    /\ players = <<>>
    /\ pc[3] = "done"
    /\ Len(sent) = 2
    /\ sent[1].to = 3 /\ sent[1].text = "{} won." /\ sent[1].name = ClientName(1)
    /\ sent[2] = Text(1, "You won!")

\* C19 as stated: at every loss check for index i no participant other than i
\* has an entirely destroyed fleet.
C19_NoOtherDestroyedAtCheck ==
    \A c \in Conns :
        pc[c] = "turn" =>
            \A k \in 0..2 : k # i => ~Destroyed(players[k + 1].grid)

\* C19: while the turn loop runs at most one fleet is entirely destroyed, and
\* it is the fleet of i or of (i+1) mod 3; the loop ends without an error only
\* through the loss check for a destroyed i, and then the fleet of i is the
\* only one destroyed.
C19_AtMostOneDestroyed ==
    /\ [](\A c \in Conns :
            Playing(c) =>
                \A k \in 0..2 :
                    Destroyed(players[k + 1].grid) =>
                        /\ k = i \/ k = Succ3(i)
                        /\ \A j \in 0..2 :
                              j # k => ~Destroyed(players[j + 1].grid))
    /\ [][\A c \in Conns :
            (pc[c] \in MatchStages /\ pc'[c] = "done") =>
                /\ pc[c] = "turn"
                /\ Destroyed(players[i + 1].grid)
                /\ \A j \in 0..2 :
                      j # i => ~Destroyed(players[j + 1].grid)]_vars

\* A loss check for index i with the fleet of (i+1) mod 3 destroyed and the
\* fleet of i intact.
C19_Witness ==
    \E c \in Conns :
        /\ pc[c] = "turn"
        /\ Destroyed(players[Succ3(i) + 1].grid)
        /\ ~Destroyed(players[i + 1].grid)

NoError == \A c \in Conns : pc[c] # "panicked"

\* C20: as long as no thread has failed on a channel, the roster holds three
\* only while the lock is held, no connection has been declined, the accept
\* loop is still running, and a thread that got the lock finds the roster
\* below capacity.
C20_NoDeclineWithoutError ==
    NoError =>
        /\ Len(players) = 3 => lock # 0
        /\ Len(players) <= 3
        /\ \A c \in Conns : pc[c] # "declined"
        /\ serverUp
        /\ \A c \in Conns : pc[c] = "locked" => Len(players) < 3

\* Without any error, the fourth connection is the first of the next cohort
\* after the match of the first three was won.
C20_Witness ==
    /\ NoError
    /\ pc[3] = "done"
    /\ lock = 0
    /\ Len(players) = 1
    /\ players[1].conn = 4

====
